---- MODULE Spec2Model ----
(***************************************************************************)
(* Model of the two print-to-logging rewriters of lotusplannerv3:          *)
(*   optimize_logging_simple.py  (the "literal" variant, str.replace)      *)
(*   optimize_logging.py         (the "regex" variant, re.findall/re.sub)  *)
(*                                                                         *)
(* A text is a sequence of tokens; a token is a string that stands for a   *)
(* fixed piece of file text.  The tokens are chosen so that every string   *)
(* the code searches for ('print(', 'import ', 'import PerformanceLogger', *)
(* the rules' match strings, a line break) is a sequence of whole tokens   *)
(* and cannot arise across a token border.  Emoji are written {U+xxxx}.    *)
(***************************************************************************)
EXTENDS Integers, Sequences, FiniteSets, TLC

VARIABLES
    variant,           \* which script runs: "literal" or "regex"
    disk,              \* the glob's files in its order: file -> raw content
    diskPrev,          \* disk as it was when the current run started
    i,                 \* main's loop: the file at hand (from 1)
    pc,                \* "loop", "import", "rules", "compare", "done", "aborted"
    content,           \* optimize_file's local
    original_content,  \* optimize_file's local
    optimized_count,   \* main's local
    stdout,            \* the lines printed by the current run
    returned,          \* what optimize_file returned, call by call, this run
    written,           \* the files a write of this run has completed on
    opened,            \* the files this run has called open() on
    exit_code,         \* "running", "0" or "1"
    error,             \* the exception that ended the run, "none" without
    runs,              \* how many times the script has been started
    ioFault            \* an I/O or decoding error has happened

vars == <<variant, disk, diskPrev, i, pc, content, original_content,
          optimized_count, stdout, returned, written, opened, exit_code,
          error, runs, ioFault>>

----------------------------------------------------------------------------
(* Bounds of the model *)

\* most lines of the one richly varied file
MaxLines == 3
\* most files the glob returns in a run over several files
MaxFiles == 3
\* how many times the script is started on the same tree
MaxRuns == 2

----------------------------------------------------------------------------
(* Tokens *)

NL == "\n"
CR == "\r"
SP == " "
IMPORT == "import "
PLOGGER == "PerformanceLogger"
FOUNDATION == "Foundation"
COMMENT == "// "
PRINT == "print("
QE == "\")"
STMT == "let x = 1"
\* opening quote, emoji and one blank: the start of a print call's message
Q_SYNC == "\"{U+1F504} "
Q_WARN == "\"{U+26A0}{U+FE0F} "
Q_SAVE == "\"{U+1F4BE} "
Q_OK == "\"{U+2705} "
Q_ERR == "\"{U+274C} "
Q_IN == "\"{U+1F4E5} "
Q_CAM == "\"{U+1F4F8} "
JV == "JournalView: "
\* the start of a logging call, up to and including the opening quote
LOG_PERF == "logPerformance(\""
LOG_WARN == "logWarning(\""
LOG_INFO == "logInfo(\""
LOG_ERR == "logError(\""
\* the replacement template's back-reference \1
BACKREF1 == "\\1"

Whitespace == {SP, NL, CR}

----------------------------------------------------------------------------
(* Python's str and list primitives on token sequences *)

Max(S) == CHOOSE m \in S : \A n \in S : n <= m

\* c[p:].startswith(pat)
IsPrefixAt(c, p, pat) ==
    /\ p >= 1
    /\ p + Len(pat) - 1 <= Len(c)
    /\ \A k \in 1..Len(pat) : c[p + k - 1] = pat[k]

\* pat in c
Contains(c, pat) == \E p \in 1..Len(c) : IsPrefixAt(c, p, pat)

RECURSIVE StrReplaceFrom(_, _, _, _)
StrReplaceFrom(c, p, old, new) ==
    IF p > Len(c) THEN <<>>
    ELSE IF IsPrefixAt(c, p, old)
         THEN new \o StrReplaceFrom(c, p + Len(old), old, new)
         ELSE <<c[p]>> \o StrReplaceFrom(c, p + 1, old, new)

\* c.replace(old, new): every occurrence, left to right, not overlapping
StrReplace(c, old, new) == StrReplaceFrom(c, 1, old, new)

\* the first index >= p holding a line break, 0 when there is none
NextNL(c, p) ==
    LET S == {k \in p..Len(c) : c[k] = NL}
    IN  IF S = {} THEN 0 ELSE CHOOSE k \in S : \A n \in S : k <= n

RECURSIVE SplitFrom(_, _)
SplitFrom(c, p) ==
    LET e == NextNL(c, p)
    IN  IF e = 0 THEN <<SubSeq(c, p, Len(c))>>
        ELSE <<SubSeq(c, p, e - 1)>> \o SplitFrom(c, e + 1)

\* c.split('\n')
Split(c) == SplitFrom(c, 1)

RECURSIVE Join(_)
\* '\n'.join(lines)
Join(lines) ==
    IF Len(lines) = 0 THEN <<>>
    ELSE IF Len(lines) = 1 THEN lines[1]
    ELSE lines[1] \o <<NL>> \o Join(Tail(lines))

\* lines.insert(k, x) with 0 <= k <= len(lines), k counted from 0
Insert(lines, k, x) ==
    SubSeq(lines, 1, k) \o <<x>> \o SubSeq(lines, k + 1, Len(lines))

RECURSIVE LStrip(_)
LStrip(line) ==
    IF Len(line) > 0 /\ Head(line) \in Whitespace THEN LStrip(Tail(line))
    ELSE line

RECURSIVE RStrip(_)
RStrip(line) ==
    IF Len(line) > 0 /\ line[Len(line)] \in Whitespace
    THEN RStrip(SubSeq(line, 1, Len(line) - 1))
    ELSE line

\* line.strip().startswith('import '): strip() also takes the blank that ends
\* the token 'import ' when nothing but blanks follows it on the line
StripStartsWithImport(line) ==
    LET s == RStrip(LStrip(line))
    IN  Len(s) >= 2 /\ s[1] = IMPORT

----------------------------------------------------------------------------
(* Reading and writing a file as text (open(..., encoding='utf-8')) *)

RECURSIVE Decode(_)
\* f.read() in text mode: universal newlines turn \r\n and a lone \r into \n
Decode(raw) ==
    IF Len(raw) = 0 THEN <<>>
    ELSE IF raw[1] = CR
         THEN IF Len(raw) >= 2 /\ raw[2] = NL
              THEN <<NL>> \o Decode(SubSeq(raw, 3, Len(raw)))
              ELSE <<NL>> \o Decode(Tail(raw))
         ELSE <<raw[1]>> \o Decode(Tail(raw))

RECURSIVE Encode(_, _)
\* f.write(content) in text mode: every \n goes out as os.linesep
Encode(text, sep) ==
    IF Len(text) = 0 THEN <<>>
    ELSE IF text[1] = NL THEN sep \o Encode(Tail(text), sep)
    ELSE <<text[1]>> \o Encode(Tail(text), sep)

----------------------------------------------------------------------------
(* The import step *)

TargetImport == <<IMPORT, PLOGGER>>

\* 'import PerformanceLogger' not in content and 'print(' in content
NeedsImport(c) == ~Contains(c, TargetImport) /\ Contains(c, <<PRINT>>)

\* the loop of optimize_logging_simple.py: the index (from 1, 0 for Python's -1)
\* of the last line whose stripped text starts with 'import '
import_index(lines) ==
    LET S == {k \in 1..Len(lines) : StripStartsWithImport(lines[k])}
    IN  IF S = {} THEN 0 ELSE Max(S)

\* a faulty import branch: the line is put into lines, and content is not
\* built again from them
InsertImportNotJoined(c) == c

\* optimize_logging_simple.py, the body of the import branch
InsertImportLiteral(c) ==
    LET lines == Split(c)
        k == import_index(lines)
    IN  IF k >= 1 THEN Join(Insert(lines, k, TargetImport)) ELSE c

\* the end of the match of  import\s+[^\n]+\n  that starts at p, 0 when the
\* pattern does not match there.  The token 'import ' holds the first blank
\* of \s+; \s+ is greedy and gives blanks back until [^\n]+ finds a character
\* and a line break after it.
ImportMatchEnd(c, p) ==
    IF p > Len(c) \/ c[p] # IMPORT THEN 0
    ELSE LET nonws == {k \in (p + 1)..Len(c) : c[k] \notin Whitespace}
             q == IF nonws = {} THEN Len(c) + 1
                  ELSE CHOOSE k \in nonws : \A n \in nonws : k <= n
             S == {s \in (p + 1)..q : s <= Len(c) /\ NextNL(c, s) > s}
         IN  IF S = {} THEN 0 ELSE NextNL(c, Max(S))

RECURSIVE FindAllImportsFrom(_, _)
FindAllImportsFrom(c, p) ==
    IF p > Len(c) THEN <<>>
    ELSE LET e == ImportMatchEnd(c, p)
         IN  IF e = 0 THEN FindAllImportsFrom(c, p + 1)
             ELSE <<SubSeq(c, p, e)>> \o FindAllImportsFrom(c, e + 1)

\* re.findall(r'(import\s+[^\n]+\n)', content)
FindAllImports(c) == FindAllImportsFrom(c, 1)

\* optimize_logging.py, the body of the import branch
InsertImportRegex(c) ==
    LET imports == FindAllImports(c)
    IN  IF Len(imports) > 0
        THEN LET last_import == imports[Len(imports)]
             IN  StrReplace(c, last_import, last_import \o TargetImport \o <<NL>>)
        ELSE c

\* the whole step "Add import if not present"
AddImportStep(v, c) ==
    IF NeedsImport(c)
    THEN IF v = "literal" THEN InsertImportLiteral(c) ELSE InsertImportRegex(c)
    ELSE c

----------------------------------------------------------------------------
(* The rule tables *)

\* message texts; the ones with a Swift interpolation \(...) come twice: as the
\* file holds them (with the backslash) and as the regex variant's pattern
\* \(...\) reads them (an escaped parenthesis: the text without the backslash)
T_LOADING == "Loading drawing for journal page date: \\(currentDate)"
P_LOADING == "Loading drawing for journal page date: (currentDate)"
T_LOADED == "Loaded existing drawing for date: \\(targetDate)"
P_LOADED == "Loaded existing drawing for date: (targetDate)"
T_STALE == "Date changed during drawing load, ignoring stale data"
T_NONE == "No existing drawing found for date: \\(targetDate)"
P_NONE == "No existing drawing found for date: (targetDate)"
T_SAVE_BLOCKED == "Save blocked - operation in progress"
T_EXPLICIT == "Starting explicit save to iCloud for \\(currentDate)"
P_EXPLICIT == "Starting explicit save to iCloud for (currentDate)"
T_SAVING_DRAWING == "Saving drawing to iCloud"
T_SAVING_PHOTOS == "Saving photos to iCloud"
T_SAVED == "Successfully saved to iCloud"
T_SAVE_FAILED == "Failed to save to iCloud: \\(error.localizedDescription)"
P_SAVE_FAILED == "Failed to save to iCloud: (error.localizedDescription)"
T_LOAD_BLOCKED == "Load blocked - operation in progress"
T_LOADING_ICLOUD == "Loading from iCloud for \\(currentDate)"
T_LOADED_DRAWING == "Successfully loaded drawing from iCloud"
T_NO_DRAWING == "No drawing found in iCloud"
T_LOADED_ICLOUD == "Successfully loaded from iCloud"
T_LOAD_FAILED == "Failed to load from iCloud: \\(error.localizedDescription)"
T_SWITCH_BLOCKED == "Date switch blocked - save/load in progress"
T_SWITCHING == "Switching to date \\(newDate)"

\* one pair of optimize_logging_simple.py:
\* ('print("<emoji> JournalView: <text>")', '<log call>("<text>")')
LitRule(q, t, fn) == [old |-> <<PRINT, q, JV, t, QE>>, new |-> <<fn, t, QE>>]

\* optimize_logging_simple.py, replacements
LiteralRules == <<
    LitRule(Q_SYNC, T_LOADING, LOG_PERF),
    LitRule(Q_SYNC, T_LOADED, LOG_PERF),
    LitRule(Q_WARN, T_STALE, LOG_WARN),
    LitRule(Q_SYNC, T_NONE, LOG_PERF),
    LitRule(Q_WARN, T_SAVE_BLOCKED, LOG_WARN),
    LitRule(Q_SAVE, T_EXPLICIT, LOG_PERF),
    LitRule(Q_SAVE, T_SAVING_DRAWING, LOG_PERF),
    LitRule(Q_SAVE, T_SAVING_PHOTOS, LOG_PERF),
    LitRule(Q_OK, T_SAVED, LOG_INFO),
    LitRule(Q_ERR, T_SAVE_FAILED, LOG_ERR),
    LitRule(Q_WARN, T_LOAD_BLOCKED, LOG_WARN),
    LitRule(Q_IN, T_LOADING_ICLOUD, LOG_PERF),
    LitRule(Q_IN, T_LOADED_DRAWING, LOG_INFO),
    LitRule(Q_IN, T_NO_DRAWING, LOG_INFO),
    LitRule(Q_OK, T_LOADED_ICLOUD, LOG_INFO),
    LitRule(Q_ERR, T_LOAD_FAILED, LOG_ERR),
    LitRule(Q_WARN, T_SWITCH_BLOCKED, LOG_WARN),
    LitRule(Q_SYNC, T_SWITCHING, LOG_PERF) >>

\* a JournalView pattern of optimize_logging.py: a pattern without wildcard or
\* group, and a template without back-reference
JVRule(q, p, fn, t) ==
    [pre |-> <<PRINT, q, JV, p, QE>>, wild |-> FALSE, suf |-> <<>>,
     groups |-> 0, ref |-> 0, new |-> <<fn, t, QE>>]

\* a general pattern of optimize_logging.py:  print\("<emoji>.*"\)  has no
\* group, and its template '<log call>("\1")' refers to group 1.  (The blank
\* that ends the token q belongs to what .* matches.)
GeneralRule(q, fn) ==
    [pre |-> <<PRINT, q>>, wild |-> TRUE, suf |-> <<QE>>,
     groups |-> 0, ref |-> 1, new |-> <<fn, BACKREF1, QE>>]

\* optimize_logging.py, replacements
RegexRules == <<
    JVRule(Q_SYNC, P_LOADING, LOG_PERF, T_LOADING),
    JVRule(Q_SYNC, P_LOADED, LOG_PERF, T_LOADED),
    JVRule(Q_WARN, T_STALE, LOG_WARN, T_STALE),
    JVRule(Q_SYNC, P_NONE, LOG_PERF, T_NONE),
    JVRule(Q_WARN, T_SAVE_BLOCKED, LOG_WARN, T_SAVE_BLOCKED),
    JVRule(Q_SAVE, P_EXPLICIT, LOG_PERF, T_EXPLICIT),
    JVRule(Q_SAVE, T_SAVING_DRAWING, LOG_PERF, T_SAVING_DRAWING),
    JVRule(Q_SAVE, T_SAVING_PHOTOS, LOG_PERF, T_SAVING_PHOTOS),
    JVRule(Q_OK, T_SAVED, LOG_INFO, T_SAVED),
    JVRule(Q_ERR, P_SAVE_FAILED, LOG_ERR, T_SAVE_FAILED),
    GeneralRule(Q_WARN, LOG_WARN),
    GeneralRule(Q_ERR, LOG_ERR),
    GeneralRule(Q_OK, LOG_INFO),
    GeneralRule(Q_SYNC, LOG_PERF),
    GeneralRule(Q_CAM, LOG_PERF),
    GeneralRule(Q_SAVE, LOG_PERF),
    GeneralRule(Q_IN, LOG_PERF) >>

----------------------------------------------------------------------------
(* Applying the rules *)

\* a faulty loop: the result of content.replace(old, new) is dropped
ApplyLiteralDiscarding(c, r) == c

RECURSIVE ApplyLiteralFrom(_, _)
\* optimize_logging_simple.py: for old, new in replacements:
\*                                 content = content.replace(old, new)
ApplyLiteralFrom(c, r) ==
    IF r > Len(LiteralRules) THEN c
    ELSE ApplyLiteralFrom(
             StrReplace(c, LiteralRules[r].old, LiteralRules[r].new), r + 1)

\* the end of the leftmost match of rule's pattern that starts at p, 0 when
\* there is none; .* is greedy and does not cross a line break
MatchEnd(c, p, rule) ==
    IF ~IsPrefixAt(c, p, rule.pre) THEN 0
    ELSE IF ~rule.wild THEN p + Len(rule.pre) - 1
    ELSE LET from == p + Len(rule.pre)
             S == {e \in (from + Len(rule.suf) - 1)..Len(c) :
                     /\ IsPrefixAt(c, e - Len(rule.suf) + 1, rule.suf)
                     /\ \A k \in from..(e - Len(rule.suf)) : c[k] # NL}
         IN  IF S = {} THEN 0 ELSE Max(S)

RECURSIVE SubFrom(_, _, _)
SubFrom(c, p, rule) ==
    IF p > Len(c) THEN <<>>
    ELSE LET e == MatchEnd(c, p, rule)
         IN  IF e = 0 THEN <<c[p]>> \o SubFrom(c, p + 1, rule)
             ELSE rule.new \o SubFrom(c, e + 1, rule)

\* the template refers to a group the pattern does not have: re.sub compiles
\* the template before it searches, and raises re.error
InvalidGroupReference(rule) == rule.ref > rule.groups

\* re.sub(pattern, replacement, content)
ReSub(c, rule) ==
    IF InvalidGroupReference(rule) THEN [raised |-> TRUE, content |-> c]
    ELSE [raised |-> FALSE, content |-> SubFrom(c, 1, rule)]

RECURSIVE ApplyRegexFrom(_, _)
\* optimize_logging.py: for pattern, replacement in replacements:
\*                          content = re.sub(pattern, replacement, content)
ApplyRegexFrom(c, r) ==
    IF r > Len(RegexRules) THEN [raised |-> FALSE, content |-> c]
    ELSE LET res == ReSub(c, RegexRules[r])
         IN  IF res.raised THEN res ELSE ApplyRegexFrom(res.content, r + 1)

\* the loop over the rules; raised: the loop ended in an exception
ApplyRules(v, c) ==
    IF v = "literal"
    THEN [raised |-> FALSE, content |-> ApplyLiteralFrom(c, 1)]
    ELSE ApplyRegexFrom(c, 1)

----------------------------------------------------------------------------
(* The files the runs start from *)

L_IMPORT == <<IMPORT, FOUNDATION>>
L_TARGET == <<IMPORT, PLOGGER>>
L_COMMENTED == <<COMMENT, IMPORT, FOUNDATION>>
L_SAVED == <<PRINT, Q_OK, JV, T_SAVED, QE>>
L_SWITCHING == <<PRINT, Q_SYNC, JV, T_SWITCHING, QE>>
L_PRINT == <<PRINT, "x)">>
L_STMT == <<STMT>>

LineKinds == {L_IMPORT, L_TARGET, L_COMMENTED, L_SAVED, L_PRINT, L_STMT}

LF == <<NL>>
CRLF == <<CR, NL>>

\* os.linesep where the project is built (macOS)
LineSep == LF

RECURSIVE RawFile(_, _, _)
\* the lines, each but the last followed by the line end eol; the last one
\* too when the file ends in a line end
RawFile(lines, eol, trailing) ==
    IF Len(lines) = 0 THEN <<>>
    ELSE IF Len(lines) = 1
         THEN lines[1] \o (IF trailing THEN eol ELSE <<>>)
         ELSE lines[1] \o eol \o RawFile(Tail(lines), eol, trailing)

SeqsUpTo(S, n) == UNION {[1..k -> S] : k \in 0..n}

\* one file, its lines varied
VariedFiles ==
    {RawFile(ls, st[1], st[2]) :
         ls \in SeqsUpTo(LineKinds, MaxLines),
         st \in {<<LF, TRUE>>, <<CRLF, FALSE>>}}

\* a few whole files for the runs over several files
PlainFiles ==
    {RawFile(<<L_STMT>>, LF, TRUE),
     RawFile(<<L_IMPORT, L_SAVED>>, LF, TRUE),
     RawFile(<<L_PRINT>>, LF, FALSE),
     RawFile(<<L_IMPORT, L_SWITCHING, L_SAVED>>, CRLF, TRUE)}

\* swift_files = glob.glob(...): the files found, in the glob's order
Trees == {<<f>> : f \in VariedFiles} \cup SeqsUpTo(PlainFiles, MaxFiles)

----------------------------------------------------------------------------
(* The run *)

IOErrors == {"OSError", "UnicodeDecodeError"}

\* a faulty ending: the exception is caught at the top and the status stays 0
ExitStatusZero(e) == "0"

\* the interpreter's exit status: 0 when main returns, 1 when an exception
\* leaves it (nothing catches one)
ExitStatus(e) == IF e = "none" THEN "0" ELSE "1"

\* a faulty main: the exception is caught in the loop, which goes on with the
\* next file
RaiseSwallowed(e) ==
    /\ pc' = "loop"
    /\ error' = e
    /\ exit_code' = "running"
    /\ i' = i + 1

\* an exception raised in optimize_file: neither optimize_file nor main
\* catches it, the loop does not go on
Raise(e) ==
    /\ pc' = "aborted"
    /\ error' = e
    /\ exit_code' = ExitStatus(e)
    /\ i' = i

\* if content != original_content
Modified(c, orig) == c # orig

\* a faulty count: every file is counted, modified or not
TallyAlways(count, modified) == count + 1

\* if optimize_file(file_path): optimized_count += 1
Tally(count, modified) == IF modified THEN count + 1 ELSE count

Init ==
    /\ variant \in {"literal", "regex"}
    /\ disk \in Trees
    /\ diskPrev = disk
    /\ i = 1
    /\ pc = "loop"
    /\ content = <<>>
    /\ original_content = <<>>
    /\ optimized_count = 0
    /\ stdout = <<>>
    /\ returned = <<>>
    /\ written = {}
    /\ opened = {}
    /\ exit_code = "running"
    /\ error = "none"
    /\ runs = 1
    /\ ioFault = FALSE

\* with open(file_path, 'r', encoding='utf-8') as f: content = f.read()
ReadFile ==
    /\ pc = "loop"
    /\ i <= Len(disk)
    /\ content' = Decode(disk[i])
    /\ original_content' = content'
    /\ opened' = opened \cup {i}
    /\ pc' = "import"
    /\ UNCHANGED <<variant, disk, diskPrev, i, optimized_count,
                   stdout, returned, written, exit_code, error, runs, ioFault>>

\* the same, when the file cannot be opened or its bytes are not UTF-8
ReadFail ==
    /\ pc = "loop"
    /\ i <= Len(disk)
    /\ \E e \in IOErrors : Raise(e)
    /\ opened' = opened \cup {i}
    /\ ioFault' = TRUE
    /\ UNCHANGED <<variant, disk, diskPrev, content, original_content,
                   optimized_count, stdout, returned, written, runs>>

\* "Add import if not present"
AddImport ==
    /\ pc = "import"
    /\ content' = AddImportStep(variant, content)
    /\ pc' = "rules"
    /\ UNCHANGED <<variant, disk, diskPrev, i, original_content,
                   optimized_count, stdout, returned, written, opened,
                   exit_code, error, runs, ioFault>>

\* the loop over replacements
ApplyAllRules ==
    /\ pc = "rules"
    /\ LET res == ApplyRules(variant, content)
       IN  /\ content' = res.content
           /\ IF res.raised
              THEN Raise("re.error")
              ELSE /\ pc' = "compare"
                   /\ UNCHANGED <<i, error, exit_code>>
    /\ UNCHANGED <<variant, disk, diskPrev, original_content,
                   optimized_count, stdout, returned, written, opened, runs,
                   ioFault>>

\* "Only write if content changed", the return, and main's count
WriteBack ==
    /\ pc = "compare"
    /\ LET modified == Modified(content, original_content)
       IN  /\ IF modified
              THEN /\ disk' = [disk EXCEPT ![i] = Encode(content, LineSep)]
                   /\ stdout' = Append(stdout, [line |-> "Optimized", arg |-> i])
                   /\ written' = written \cup {i}
                   /\ opened' = opened \cup {i}
              ELSE UNCHANGED <<disk, stdout, written, opened>>
           /\ returned' = Append(returned, modified)
           /\ optimized_count' = Tally(optimized_count, modified)
    /\ i' = i + 1
    /\ pc' = "loop"
    /\ content' = <<>>
    /\ original_content' = <<>>
    /\ UNCHANGED <<variant, diskPrev, exit_code, error, runs, ioFault>>

\* the write fails: open(file_path, 'w') is refused and the file stays, or it
\* has emptied the file and the write is lost
WriteFail ==
    /\ pc = "compare"
    /\ Modified(content, original_content)
    /\ disk' \in {disk, [disk EXCEPT ![i] = <<>>]}
    /\ Raise("OSError")
    /\ opened' = opened \cup {i}
    /\ ioFault' = TRUE
    /\ UNCHANGED <<variant, diskPrev, content, original_content,
                   optimized_count, stdout, returned, written, runs>>

\* print(f"Optimized {optimized_count} files"), and main returns
Finish ==
    /\ pc = "loop"
    /\ i > Len(disk)
    /\ stdout' = Append(stdout, [line |-> "Summary", arg |-> optimized_count])
    /\ pc' = "done"
    /\ exit_code' = ExitStatus("none")
    /\ UNCHANGED <<variant, disk, diskPrev, i, content,
                   original_content, optimized_count, returned, written,
                   opened, error, runs, ioFault>>

\* the script is started again on the tree as the last run left it (runs
\* after an I/O failure are not followed further)
Rerun ==
    /\ pc \in {"done", "aborted"}
    /\ runs < MaxRuns
    /\ ~ioFault
    /\ runs' = runs + 1
    /\ diskPrev' = disk
    /\ i' = 1
    /\ pc' = "loop"
    /\ content' = <<>>
    /\ original_content' = <<>>
    /\ optimized_count' = 0
    /\ stdout' = <<>>
    /\ returned' = <<>>
    /\ written' = {}
    /\ opened' = {}
    /\ exit_code' = "running"
    /\ error' = "none"
    /\ UNCHANGED <<variant, disk, ioFault>>

Next ==
    \/ ReadFile
    \/ ReadFail
    \/ AddImport
    \/ ApplyAllRules
    \/ WriteBack
    \/ WriteFail
    \/ Finish
    \/ Rerun

Spec == Init /\ [][Next]_vars

----------------------------------------------------------------------------
(* What the claims speak of *)

Files == 1..Len(disk)

\* the text of file k as the current run found it, and as it is now
Text0(k) == Decode(diskPrev[k])
Text1(k) == Decode(disk[k])

\* optimize_file has returned for file k in the current run
Returned(k) == k \in Files /\ k <= Len(returned)

\* the call of optimize_file on file k has ended, by a return or by an
\* exception, and no I/O or decoding error is what ended it
EndedWithoutIOError(k) ==
    /\ k \in Files
    /\ \/ k < i
       \/ k = i /\ pc = "aborted" /\ error \notin IOErrors

\* a line that begins with an import declaration: blanks, then 'import ' and
\* something to import
BeginsWithImport(line) ==
    \E n \in 1..Len(line) :
        /\ \A m \in 1..(n - 1) : line[m] = SP
        /\ line[n] = IMPORT
        /\ \E m \in (n + 1)..Len(line) : line[m] \notin Whitespace

ImportLines(lines) == {j \in 1..Len(lines) : BeginsWithImport(lines[j])}

\* the file has the print-call marker, lacks the target import, and has an
\* import line
WantsImportLine(text) ==
    /\ Contains(text, <<PRINT>>)
    /\ ~Contains(text, TargetImport)
    /\ ImportLines(Split(text)) # {}

\* text with the line 'import PerformanceLogger' put after its last import line
WithImportLine(text) ==
    LET lines == Split(text)
    IN  Join(Insert(lines, Max(ImportLines(lines)), TargetImport))

\* the content optimize_file arrives at for a text
Rewritten(v, text) == ApplyRules(v, AddImportStep(v, text)).content

\* some literal rule's match string occurs in the line
SomeRuleOccurs(line) ==
    \E r \in 1..Len(LiteralRules) : Contains(line, LiteralRules[r].old)

OptimizedLines == {n \in 1..Len(stdout) : stdout[n].line = "Optimized"}

----------------------------------------------------------------------------
(* The claims *)

\* C1: in both variants, a file without the print-call marker is left as it
\* is, is not written, and optimize_file returns false for it.
C1_NoMarkerNoChange ==
    \A k \in Files :
        (EndedWithoutIOError(k) /\ ~Contains(Text0(k), <<PRINT>>))
        => /\ disk[k] = diskPrev[k]
           /\ k \notin written
           /\ Returned(k)
           /\ returned[k] = FALSE

\* C2: idempotence: when the script runs a second time, every call of
\* optimize_file returns false, writes nothing and leaves the file as the
\* first run left it.
C2_SecondRunChangesNothing ==
    \A k \in Files :
        (runs >= 2 /\ EndedWithoutIOError(k))
        => /\ disk[k] = diskPrev[k]
           /\ k \notin written
           /\ Returned(k)
           /\ returned[k] = FALSE

\* C3: fail-fast with partial completion: once a file raises, the run has
\* stopped at that file; each file before it holds what the rewriter gave it
\* (or its old content when the rewriter changed nothing), and no file after
\* it has been opened or changed.
C3_FailFast ==
    (error # "none")
    => /\ pc = "aborted"
       /\ i \in Files
       /\ opened \subseteq 1..i
       /\ Len(returned) = i - 1
       /\ \A k \in Files :
            /\ (k > i) => disk[k] = diskPrev[k]
            /\ (k < i) =>
                 disk[k] = IF returned[k]
                           THEN Encode(Rewritten(variant, Text0(k)), LineSep)
                           ELSE diskPrev[k]

\* a run that aborts on its second file, after rewriting the first, with a
\* third file left that the rewriter would have changed
C3_Witness ==
    /\ pc = "aborted"
    /\ i = 2
    /\ Len(disk) >= 3
    /\ 1 \in written
    /\ disk[1] # diskPrev[1]
    /\ Rewritten(variant, Text0(3)) # Text0(3)
    /\ disk[3] = diskPrev[3]

\* C4, as the specification states it: in the literal variant, a line that is
\* exactly one rule's match string has become that rule's replacement, and
\* the file's other lines are as they were, none added and none removed.
C4_OnlyThatLineAltered ==
    \A k \in Files :
        (variant = "literal" /\ Returned(k))
        => LET before == Split(Text0(k))
               after == Split(Text1(k))
           IN  \A j \in 1..Len(before) :
                 \A r \in 1..Len(LiteralRules) :
                   (before[j] = LiteralRules[r].old)
                   => after = [before EXCEPT ![j] = LiteralRules[r].new]

\* C4, amended: in the literal variant, a line that is exactly one rule's
\* match string has become that rule's replacement; every line in which no
\* rule's match string occurs is present, unchanged and in the same order; no
\* line is removed; and the only line added is the one line
\* 'import PerformanceLogger', put after the last import line when the file
\* lacks the target import and has an import line.
C4_MatchedLinesReplaced ==
    \A k \in Files :
        (variant = "literal" /\ Returned(k))
        => LET before == Split(Text0(k))
               after == Split(Text1(k))
               added == WantsImportLine(Text0(k))
               at == IF added THEN Max(ImportLines(before)) + 1 ELSE 0
               \* after, without the added line
               kept == IF added
                       THEN SubSeq(after, 1, at - 1)
                                \o SubSeq(after, at + 1, Len(after))
                       ELSE after
           IN  /\ added => (Len(after) = Len(before) + 1
                            /\ after[at] = TargetImport)
               /\ Len(kept) = Len(before)
               /\ \A j \in 1..Len(before) :
                    /\ \A r \in 1..Len(LiteralRules) :
                         (before[j] = LiteralRules[r].old)
                         => kept[j] = LiteralRules[r].new
                    /\ ~SomeRuleOccurs(before[j]) => kept[j] = before[j]

\* a literal-variant file with a line that is a rule's match string, another
\* line, and the import line added
C4_Witness ==
    /\ variant = "literal"
    /\ Returned(1)
    /\ WantsImportLine(Text0(1))
    /\ \E j \in 1..Len(Split(Text0(1))) : Split(Text0(1))[j] = L_SAVED
    /\ \E j \in 1..Len(Split(Text0(1))) : Split(Text0(1))[j] = L_STMT
    /\ \E j \in 1..Len(Split(Text1(1))) :
           Split(Text1(1))[j] = <<LOG_INFO, T_SAVED, QE>>

\* C5: in both variants the import step, on a file with the print-call marker
\* and without the target import, adds exactly one line
\* 'import PerformanceLogger' right after the last line that begins with an
\* import declaration and changes nothing else; without such a line, or
\* without the marker, or with the target import, it changes nothing.
C5_OneImportAfterLastImportLine ==
    (pc = "rules")
    => IF WantsImportLine(original_content)
       THEN content = WithImportLine(original_content)
       ELSE content = original_content

\* C6: the counter is the number of files overwritten so far; a file is
\* overwritten exactly when its transformed content differs from what was
\* read; one 'Optimized' line is printed per overwritten file; and when the
\* run completes, the summary reports the number of files whose content on
\* disk differs from before the run.
C6_CountIsFilesOverwritten ==
    /\ optimized_count = Cardinality(written)
    /\ written = {k \in 1..Len(returned) : returned[k]}
    /\ \A k \in 1..Len(returned) :
         returned[k] <=> (Rewritten(variant, Text0(k)) # Text0(k))
    /\ written = {k \in Files : k < i /\ disk[k] # diskPrev[k]}
    /\ Cardinality(OptimizedLines) = Cardinality(written)
    /\ {stdout[n].arg : n \in OptimizedLines} = written
    /\ (pc = "done")
       => /\ stdout[Len(stdout)].line = "Summary"
          /\ stdout[Len(stdout)].arg
               = Cardinality({k \in Files : disk[k] # diskPrev[k]})

\* a completed run that has overwritten some files and left others
C6_Witness ==
    /\ pc = "done"
    /\ optimized_count >= 2
    /\ optimized_count < Len(disk)
    /\ \E k \in Files : disk[k] = diskPrev[k]

\* C7: rule order: in the regex variant, where a JournalView rule and a later
\* general emoji-prefix rule both match a print call of the file, the file
\* shows the JournalView rule's replacement after optimize_file.
C7_EarlierRuleShows ==
    \A k \in Files :
        (variant = "regex" /\ EndedWithoutIOError(k))
        => \A r \in 1..Len(RegexRules) :
             (/\ ~RegexRules[r].wild
              /\ Contains(Text0(k), RegexRules[r].pre)
              /\ \E g \in (r + 1)..Len(RegexRules) :
                     /\ RegexRules[g].wild
                     /\ \E p \in 1..Len(Text0(k)) :
                            /\ IsPrefixAt(Text0(k), p, RegexRules[r].pre)
                            /\ MatchEnd(Text0(k), p, RegexRules[g]) > 0)
             => Contains(Text1(k), RegexRules[r].new)

\* C8, as the specification states it: every run that has ended has ended
\* with exit status 0.
C8_AlwaysExitsZero ==
    (pc \in {"done", "aborted"}) => exit_code = "0"

\* C8, amended: a run ends with exit status 0 exactly when main returns; a
\* run in which a file raised (an I/O error, a decoding error, or the regex
\* variant's re.error) ends with exit status 1, since nothing catches the
\* exception.
C8_ExitStatusTellsFailure ==
    /\ (pc = "done") => (exit_code = "0" /\ error = "none")
    /\ (pc = "aborted") => (exit_code = "1" /\ error # "none")
    /\ (pc \notin {"done", "aborted"}) => exit_code = "running"
    /\ (error # "none") => pc = "aborted"

\* a run that fails on a later file after it has overwritten an earlier one
C8_Witness ==
    /\ pc = "aborted"
    /\ exit_code = "1"
    /\ error \in IOErrors
    /\ written # {}
    /\ i > 1

\* C9: the only errors that end optimize_file are an I/O error and a decoding
\* error: a file that is read and written without such an error goes through
\* all the rules and optimize_file returns.
C9_OnlyIOAndDecodingErrors ==
    /\ error \in IOErrors \cup {"none"}
    /\ \A k \in Files : EndedWithoutIOError(k) => Returned(k)

\* C10: in the literal variant, a file with the print-call marker, without
\* the target import and with an import line is overwritten, reported and
\* counted as modified, whether or not a rule matches in it.
C10_ImportAloneModifies ==
    \A k \in Files :
        (/\ variant = "literal"
         /\ Returned(k)
         /\ WantsImportLine(Text0(k)))
        => /\ returned[k]
           /\ k \in written
           /\ disk[k] # diskPrev[k]
           /\ \E n \in 1..Len(stdout) :
                  stdout[n] = [line |-> "Optimized", arg |-> k]
           /\ optimized_count
                = Cardinality({m \in 1..Len(returned) : returned[m]})
           /\ optimized_count >= 1

\* such a file in which no rule matches: only the import line has come in
C10_Witness ==
    /\ variant = "literal"
    /\ Returned(1)
    /\ WantsImportLine(Text0(1))
    /\ \A r \in 1..Len(LiteralRules) : ~Contains(Text0(1), LiteralRules[r].old)
    /\ Text1(1) = WithImportLine(Text0(1))
    /\ returned[1]
    /\ optimized_count = 1

====
